---- MODULE Spec2Model ----
(***************************************************************************)
(* depper: constraints on the Go package dependency graph.                 *)
(*                                                                         *)
(* The model follows depper.go: parse (the denormalisation of a rule),     *)
(* compilePkgpattern / pkgpattern.match, defs.collectPackages (the graph   *)
(* builder, as a stack machine), and main's run of rule.process over the   *)
(* graph followed by rule.processMissingPackages.                          *)
(*                                                                         *)
(* Strings are sequences of one-character strings, so that prefix tests,   *)
(* splitting, trimming and regular-expression matching are computed.       *)
(***************************************************************************)
EXTENDS Integers, Sequences, FiniteSets, Bags, TLC

VARIABLES
    world,      \* what packages.Load answers: [root, pkg: name -> [goroot, imports]]
    defs,       \* the parsed defs: [Config: [WorkingPackage], Rules: seq of rule]
    pkgs,       \* map[string]*pkg being built, then read by the rules
    stack,      \* the active calls of _collectPackages, innermost last
    loads,      \* bag of the names handed to packages.Load
    pending,    \* names of pkgs main's loop has not reached yet
    nextRule,   \* index of the next rule of main's processMissingPackages loop
    phase,      \* "start", "build", "run", "missing", "done", "failed", "panic"; "match"
    mIn,        \* pattern check: <<[wp, expr, pkg]>>, empty in a run of main
    mPat,       \* pattern check: <<what compilePkgpattern returned>>, empty before
    mOut        \* pattern check: <<the BOOLEAN match returned>>, empty before

vars == <<world, defs, pkgs, stack, loads, pending, nextRule, phase, mIn, mPat, mOut>>

-----------------------------------------------------------------------------
(* Bounds of the model. *)

\* most imports a working package of a generated world declares
MaxImports == 2
\* most entries of a rule's deprecated_dependencies
MaxExpected == 2
\* most entries of a rule's may_depend
MaxMayDepend == 1

-----------------------------------------------------------------------------
(* Strings. *)

Drop(s, n) == SubSeq(s, n + 1, Len(s))

Take(s, n) == SubSeq(s, 1, n)

\* strings.HasPrefix
HasPrefix(s, prefix) ==
    /\ Len(prefix) <= Len(s)
    /\ Take(s, Len(prefix)) = prefix

\* strings.HasSuffix
HasSuffix(s, suffix) ==
    /\ Len(suffix) <= Len(s)
    /\ Drop(s, Len(s) - Len(suffix)) = suffix

\* unicode.IsSpace. A character that a TLA+ string cannot hold is written as the
\* name of its code point: "U+000B" is the vertical tab.
WhiteSpace ==
    {"\t", "\n", "\f", "\r", " ",
     "U+000B", "U+0085", "U+00A0", "U+1680", "U+2000", "U+2001", "U+2002",
     "U+2003", "U+2004", "U+2005", "U+2006", "U+2007", "U+2008", "U+2009",
     "U+200A", "U+2028", "U+2029", "U+202F", "U+205F", "U+3000"}

\* strings.TrimSpace
RECURSIVE TrimLeft(_)
TrimLeft(s) == IF s # <<>> /\ Head(s) \in WhiteSpace THEN TrimLeft(Tail(s)) ELSE s

RECURSIVE TrimRight(_)
TrimRight(s) ==
    IF s # <<>> /\ s[Len(s)] \in WhiteSpace THEN TrimRight(Take(s, Len(s) - 1)) ELSE s

TrimSpace(s) == TrimRight(TrimLeft(s))

\* strings.Split(s, "->"): the parts between the occurrences of the separator
RECURSIVE SplitFrom(_, _)
SplitFrom(s, cur) ==
    IF s = <<>> THEN <<cur>>
    ELSE IF HasPrefix(s, <<"-", ">">>) THEN <<cur>> \o SplitFrom(Drop(s, 2), <<>>)
    ELSE SplitFrom(Tail(s), Append(cur, Head(s)))

Split(s) == SplitFrom(s, <<>>)

-----------------------------------------------------------------------------
(* regexp.Compile and Regexp.MatchString.                                  *)
(*                                                                         *)
(* The syntax covered: literals, ".", the anchors "^" and "$", classes     *)
(* "[...]" with ranges and negation, "\" before a punctuation character,   *)
(* \d \w \s and their negations, groups "(...)" and "(?:...)", alternation *)
(* and the repetitions "*", "+", "?" with their non-greedy forms. Compile  *)
(* answers "error" where regexp.Compile returns an error, and              *)
(* "unsupported" for the syntax left out here (counted repetition, flags,  *)
(* named groups, named classes, the other escapes); no input of the model  *)
(* is of that kind.                                                        *)

\* the printable characters of ASCII, from the blank (32) to the tilde (126);
\* the grave accent, which a TLA+ string cannot hold, is "U+0060"
Printable ==
   <<
      " ", "!", "\"", "#", "$", "%", "&", "'", "(", ")", "*", "+",
      ",", "-", ".", "/", "0", "1", "2", "3", "4", "5", "6", "7",
      "8", "9", ":", ";", "<", "=", ">", "?", "@", "A", "B", "C",
      "D", "E", "F", "G", "H", "I", "J", "K", "L", "M", "N", "O",
      "P", "Q", "R", "S", "T", "U", "V", "W", "X", "Y", "Z", "[",
      "\\", "]", "^", "_", "U+0060", "a", "b", "c", "d", "e", "f", "g",
      "h", "i", "j", "k", "l", "m", "n", "o", "p", "q", "r", "s",
      "t", "u", "v", "w", "x", "y", "z", "{", "|", "}", "~"
   >>

\* the code point of a character
CodePoint(c) ==
    CASE c = "\t" -> 9
      [] c = "\n" -> 10
      [] c = "\f" -> 12
      [] c = "\r" -> 13
      [] c = "U+000B" -> 11
      [] c = "U+0085" -> 133
      [] c = "U+00A0" -> 160
      [] c = "U+1680" -> 5760
      [] c = "U+2000" -> 8192
      [] c = "U+2001" -> 8193
      [] c = "U+2002" -> 8194
      [] c = "U+2003" -> 8195
      [] c = "U+2004" -> 8196
      [] c = "U+2005" -> 8197
      [] c = "U+2006" -> 8198
      [] c = "U+2007" -> 8199
      [] c = "U+2008" -> 8200
      [] c = "U+2009" -> 8201
      [] c = "U+200A" -> 8202
      [] c = "U+2028" -> 8232
      [] c = "U+2029" -> 8233
      [] c = "U+202F" -> 8239
      [] c = "U+205F" -> 8287
      [] c = "U+3000" -> 12288
      [] OTHER -> 31 + CHOOSE i \in 1..Len(Printable) : Printable[i] = c

Alnum == {Printable[i] : i \in (17..26) \cup (34..59) \cup (66..91)}

RepeatOps == {"*", "+", "?"}

\* the ranges of \d, \w and \s
PerlClass(c) ==
    CASE c \in {"d", "D"} -> {<<48, 57>>}
      [] c \in {"w", "W"} -> {<<48, 57>>, <<65, 90>>, <<95, 95>>, <<97, 122>>}
      [] c \in {"s", "S"} -> {<<9, 10>>, <<12, 13>>, <<32, 32>>}

Fail(e) == [err |-> e, node |-> [op |-> "empty"], rest |-> <<>>]

Ok(n, r) == [err |-> "", node |-> n, rest |-> r]

\* one character of the expression, escaped or not: [err, perl, c, rest]. A
\* backslash stands before a character of ASCII (below 128) only; before one
\* that is no letter and no digit it gives the character itself
EscapedChar(s) ==
    IF s[1] # "\\" THEN [err |-> "", perl |-> FALSE, c |-> s[1], rest |-> Tail(s)]
    ELSE IF Len(s) = 1 THEN [err |-> "error", perl |-> FALSE, c |-> "", rest |-> <<>>]
    ELSE IF CodePoint(s[2]) >= 128
    THEN [err |-> "error", perl |-> FALSE, c |-> "", rest |-> <<>>]
    ELSE IF s[2] \notin Alnum
    THEN [err |-> "", perl |-> FALSE, c |-> s[2], rest |-> Drop(s, 2)]
    ELSE IF s[2] \in {"d", "w", "s", "D", "W", "S"}
    THEN [err |-> "", perl |-> TRUE, c |-> s[2], rest |-> Drop(s, 2)]
    ELSE [err |-> "unsupported", perl |-> FALSE, c |-> "", rest |-> <<>>]

PerlItem(c) == [neg |-> c \in {"D", "W", "S"}, ranges |-> PerlClass(c)]

\* the items of a class up to its "]"
RECURSIVE ClassItems(_, _, _)
ClassItems(s, first, items) ==
    IF s = <<>> THEN Fail("error")
    ELSE IF s[1] = "]" /\ ~first THEN Ok(items, Tail(s))
    ELSE IF HasPrefix(s, <<"[", ":">>) THEN Fail("unsupported")
    ELSE LET lo == EscapedChar(s)
         IN  IF lo.err # "" THEN Fail(lo.err)
             ELSE IF lo.perl
             THEN ClassItems(lo.rest, FALSE, items \cup {PerlItem(lo.c)})
             ELSE IF Len(lo.rest) >= 2 /\ lo.rest[1] = "-" /\ lo.rest[2] # "]"
             THEN LET hi == EscapedChar(Tail(lo.rest))
                  IN  IF hi.err # "" THEN Fail(hi.err)
                      ELSE IF hi.perl \/ CodePoint(hi.c) < CodePoint(lo.c)
                      THEN Fail("error")
                      ELSE ClassItems(hi.rest, FALSE,
                               items \cup {[neg |-> FALSE,
                                            ranges |-> {<<CodePoint(lo.c), CodePoint(hi.c)>>}]})
             ELSE ClassItems(lo.rest, FALSE,
                      items \cup {[neg |-> FALSE,
                                   ranges |-> {<<CodePoint(lo.c), CodePoint(lo.c)>>}]})

\* a class, after its "["
ParseClass(s) ==
    LET neg   == s # <<>> /\ s[1] = "^"
        items == ClassItems(IF neg THEN Tail(s) ELSE s, TRUE, {})
    IN  IF items.err # "" THEN items
        ELSE Ok([op |-> "class", neg |-> neg, items |-> items.node], items.rest)

RECURSIVE ParseAlt(_, _)
RECURSIVE AltNext(_, _)
RECURSIVE ParseCat(_, _)
RECURSIVE CatNext(_, _)
RECURSIVE ParseRep(_)
RECURSIVE ParseAtom(_)

\* the end of a group: its ")"
GroupEnd(a) ==
    IF a.err # "" THEN a
    ELSE IF a.rest = <<>> \/ a.rest[1] # ")" THEN Fail("error")
    ELSE Ok(a.node, Tail(a.rest))

\* a group, after its "(" or "(?:"
ParseGroup(s) == GroupEnd(ParseAlt(s, <<>>))

\* an escape as an expression
EscapeAtom(e) ==
    IF e.err # "" THEN Fail(e.err)
    ELSE IF e.perl
    THEN Ok([op |-> "class", neg |-> FALSE, items |-> {PerlItem(e.c)}], e.rest)
    ELSE Ok([op |-> "lit", c |-> e.c], e.rest)

ParseAtom(s) ==
    CASE s[1] = "(" ->
            IF HasPrefix(s, <<"(", "?">>) /\ ~HasPrefix(s, <<"(", "?", ":">>)
            THEN Fail("unsupported")
            ELSE ParseGroup(IF HasPrefix(s, <<"(", "?", ":">>) THEN Drop(s, 3) ELSE Tail(s))
      [] s[1] = "[" -> ParseClass(Tail(s))
      [] s[1] = "." -> Ok([op |-> "any"], Tail(s))
      [] s[1] = "^" -> Ok([op |-> "bol"], Tail(s))
      [] s[1] = "$" -> Ok([op |-> "eol"], Tail(s))
      [] s[1] \in RepeatOps -> Fail("error")
      [] s[1] = "{" -> Fail("unsupported")
      [] s[1] = "\\" -> EscapeAtom(EscapedChar(s))
      [] OTHER -> Ok([op |-> "lit", c |-> s[1]], Tail(s))

\* the expression a under the repetition operator at the head of a.rest, which
\* a "?" may follow; after is what follows them
Repeat(a, after) ==
    IF after # <<>> /\ after[1] \in RepeatOps THEN Fail("error")
    ELSE IF after # <<>> /\ after[1] = "{" THEN Fail("unsupported")
    ELSE Ok([op  |-> CASE a.rest[1] = "*" -> "star"
                       [] a.rest[1] = "+" -> "plus"
                       [] a.rest[1] = "?" -> "quest",
             sub |-> a.node],
            after)

\* the repetition that follows an expression; a repetition of a repetition is
\* an error
Repeated(a) ==
    IF a.err # "" THEN a
    ELSE IF a.rest # <<>> /\ a.rest[1] = "{" THEN Fail("unsupported")
    ELSE IF a.rest = <<>> \/ a.rest[1] \notin RepeatOps THEN a
    ELSE Repeat(a, IF Len(a.rest) >= 2 /\ a.rest[2] = "?"
                   THEN Drop(a.rest, 2) ELSE Tail(a.rest))

ParseRep(s) == Repeated(ParseAtom(s))

CatNext(r, subs) ==
    IF r.err # "" THEN r ELSE ParseCat(r.rest, Append(subs, r.node))

\* a concatenation, up to "|", ")" or the end
ParseCat(s, subs) ==
    IF s = <<>> \/ s[1] \in {"|", ")"} THEN Ok([op |-> "cat", subs |-> subs], s)
    ELSE CatNext(ParseRep(s), subs)

AltNext(c, subs) ==
    IF c.err # "" THEN c
    ELSE IF c.rest # <<>> /\ c.rest[1] = "|"
    THEN ParseAlt(Tail(c.rest), Append(subs, c.node))
    ELSE Ok([op |-> "alt", subs |-> Append(subs, c.node)], c.rest)

\* an alternation, up to ")" or the end
ParseAlt(s, subs) == AltNext(ParseCat(s, <<>>), subs)

\* a nil *regexp.Regexp
NilRegexp == [op |-> "nil"]

\* what is left after the expression is an unmatched ")"
Compiled(r) ==
    IF r.err # "" THEN [re |-> NilRegexp, err |-> r.err]
    ELSE IF r.rest # <<>> THEN [re |-> NilRegexp, err |-> "error"]
    ELSE [re |-> r.node, err |-> ""]

\* regexp.Compile: [re, err], err empty when the expression compiles
regexpCompile(expr) == Compiled(ParseAlt(expr, <<>>))

\* the character belongs to the class
InClass(n, ch) ==
    n.neg # (\E item \in n.items :
                item.neg # (\E r \in item.ranges :
                               r[1] <= CodePoint(ch) /\ CodePoint(ch) <= r[2]))

\* the positions at which a match of the expression n that starts at position i
\* of the text can end (positions count the characters before them)
RECURSIVE Ends(_, _, _)
RECURSIVE EndsCat(_, _, _)
RECURSIVE Reach(_, _, _, _)
RECURSIVE ReachNext(_, _, _, _)

Ends(n, text, i) ==
    CASE n.op = "lit"   -> IF i < Len(text) /\ text[i + 1] = n.c THEN {i + 1} ELSE {}
      [] n.op = "any"   -> IF i < Len(text) /\ text[i + 1] # "\n" THEN {i + 1} ELSE {}
      [] n.op = "class" -> IF i < Len(text) /\ InClass(n, text[i + 1]) THEN {i + 1} ELSE {}
      [] n.op = "bol"   -> IF i = 0 THEN {i} ELSE {}
      [] n.op = "eol"   -> IF i = Len(text) THEN {i} ELSE {}
      [] n.op = "empty" -> {i}
      [] n.op = "cat"   -> EndsCat(n.subs, text, {i})
      [] n.op = "alt"   -> UNION {Ends(n.subs[k], text, i) : k \in DOMAIN n.subs}
      [] n.op \in {"star", "plus"} ->
            (IF n.op = "star" THEN {i} ELSE {}) \cup Reach(n.sub, text, {i}, {})
      [] n.op = "quest" -> {i} \cup Ends(n.sub, text, i)

EndsCat(subs, text, from) ==
    IF subs = <<>> THEN from
    ELSE EndsCat(Tail(subs), text, UNION {Ends(Head(subs), text, j) : j \in from})

ReachNext(n, text, new, seen) ==
    IF new = {} THEN seen ELSE Reach(n, text, new, seen \cup new)

\* the positions at which one or more matches of n in a row, the first from a
\* position of the frontier, can end, added to those seen
Reach(n, text, frontier, seen) ==
    ReachNext(n, text, UNION {Ends(n, text, j) : j \in frontier} \ seen, seen)

\* Regexp.MatchString: the expression matches somewhere in the text
MatchString(re, text) == \E i \in 0..Len(text) : Ends(re, text, i) # {}

-----------------------------------------------------------------------------
(* pkg and pkgpattern. *)

\* a nil *pkg
NilPkg == <<>>

ThirdParties == <<"t", "h", "i", "r", "d", "_", "p", "a", "r", "t", "i", "e", "s">>

\* pkg.String: the display form used in the violation texts
String(pkg) == IF pkg.goroot THEN <<"<">> \o pkg.name \o <<">">> ELSE pkg.name

\* a nil *pkgpattern
NilPkgpattern ==
    [goroot |-> FALSE, thirdParties |-> FALSE, workingPackage |-> <<>>, pattern |-> NilRegexp]

\* the pkgpattern of a compiled expression, nil when regexp.Compile returned an
\* error
patternOf(goroot, compiled) ==
    IF compiled.err # "" THEN [p |-> NilPkgpattern, err |-> compiled.err]
    ELSE [p   |-> [goroot |-> goroot, thirdParties |-> FALSE,
                   workingPackage |-> <<>>, pattern |-> compiled.re],
          err |-> ""]

\* the expression is of the form "<...>"
angled(expr) == HasPrefix(expr, <<"<">>) /\ HasSuffix(expr, <<">">>)

\* compilePkgpattern: [p, err]
compilePkgpattern(workingPackage, expr) ==
    IF expr = ThirdParties THEN
        [p   |-> [goroot |-> FALSE, thirdParties |-> TRUE,
                  workingPackage |-> workingPackage, pattern |-> NilRegexp],
         err |-> ""]
    ELSE patternOf(angled(expr),
                   regexpCompile(IF angled(expr) THEN SubSeq(expr, 2, Len(expr) - 1)
                                 ELSE expr))

\* match without its test of the standard-library flag
match_ignoringGoroot(p, pkg) ==
    IF p.thirdParties THEN ~HasPrefix(pkg.name, p.workingPackage)
    ELSE p.goroot = pkg.goroot /\ MatchString(p.pattern, pkg.name)

match(p, pkg) ==
    IF p.goroot # pkg.goroot THEN FALSE
    ELSE IF p.thirdParties THEN ~HasPrefix(pkg.name, p.workingPackage)
    ELSE MatchString(p.pattern, pkg.name)

-----------------------------------------------------------------------------
(* parse: the denormalisation of the rules. *)

Range(s) == {s[i] : i \in 1..Len(s)}

\* the "parent -> child" entries of deprecated_dependencies, prefixed
Parent(workingPackage, expected) ==
    workingPackage \o <<"/">> \o TrimSpace(Split(expected)[1])

Child(workingPackage, expected) ==
    workingPackage \o <<"/">> \o TrimSpace(Split(expected)[2])

\* the expression of rule.packagePattern
packageExpr(workingPackage, r) ==
    <<"^">> \o workingPackage \o <<"/">> \o r.Packages \o <<"$">>

parseRule(workingPackage, r) ==
    LET generic  == {e \in Range(r.Expected) : Len(Split(e)) = 1}
        specific == {e \in Range(r.Expected) : Len(Split(e)) = 2}
        parents  == {Parent(workingPackage, e) : e \in specific}
    IN  [Packages   |-> r.Packages,
         MayDepend  |-> r.MayDepend,
         Expected   |-> r.Expected,
         packagePattern |-> regexpCompile(packageExpr(workingPackage, r)).re,
         mayDepends |-> [i \in 1..Len(r.MayDepend) |->
                            compilePkgpattern(workingPackage, r.MayDepend[i]).p],
         expectedStarToPackage |-> {workingPackage \o <<"/">> \o e : e \in generic},
         expectedPackageToPackage |->
             [parent \in parents |->
                 {Child(workingPackage, e) :
                     e \in {x \in specific : Parent(workingPackage, x) = parent}}],
         actualPackagesProcessed |-> {},
         violations |-> <<>>]

\* the errors of the expressions of a rule
compileErrors(workingPackage, r) ==
    {regexpCompile(packageExpr(workingPackage, r)).err}
        \cup {compilePkgpattern(workingPackage, r.MayDepend[i]).err :
                 i \in 1..Len(r.MayDepend)}

\* parse returns no error: the working package does not end in "/", every
\* expression compiles and every expectation has one or two parts
parseOk(input) ==
    /\ ~HasSuffix(input.Config.WorkingPackage, <<"/">>)
    /\ \A i \in 1..Len(input.Rules) :
           /\ compileErrors(input.Config.WorkingPackage, input.Rules[i]) = {""}
           /\ \A e \in Range(input.Rules[i].Expected) : Len(Split(e)) \in {1, 2}

\* every expression of the input is of the syntax covered
supported(input) ==
    \A i \in 1..Len(input.Rules) :
        "unsupported" \notin compileErrors(input.Config.WorkingPackage, input.Rules[i])

\* the nil *defs of a parse that failed
NilDefs == [Config |-> [WorkingPackage |-> <<>>], Rules |-> <<>>]

parse(input) ==
    IF ~parseOk(input) THEN NilDefs
    ELSE [Config |-> input.Config,
          Rules  |-> [i \in 1..Len(input.Rules) |->
                         parseRule(input.Config.WorkingPackage, input.Rules[i])]]

-----------------------------------------------------------------------------
(* rule.process and rule.processMissingPackages.                           *)
(*                                                                         *)
(* A graph is a function from names to pkg records; dependsOn maps each    *)
(* recorded import to the key of its node, or to NilPkg. A violation text  *)
(* is the tuple of the words Sprintf joins. Go iterates its maps in no     *)
(* fixed order, so an operation has one outcome per order of its appends.  *)

\* the sequences that list the members of S once each
RECURSIVE Orderings(_)
Orderings(S) ==
    IF S = {} THEN {<<>>}
    ELSE UNION {{<<x>> \o o : o \in Orderings(S \ {x})} : x \in S}

Disallowed(pkg, bad) == <<"disallowed", String(pkg), bad>>

ExpectedButAbsent(pkg, expected) == <<"expected", String(pkg), expected>>

Missing(expected) == <<"missing", expected>>

\* the targets of pkg's edges
dependencies(pkg) == {pkg.dependsOn[imp] : imp \in DOMAIN pkg.dependsOn}

\* rule.expectedPackageToPackage[name], empty for an absent key
specificExceptions(rule, name) ==
    IF name \in DOMAIN rule.expectedPackageToPackage
    THEN rule.expectedPackageToPackage[name]
    ELSE {}

\* the inner loop over rule.mayDepends
mayDepend(rule, depPkg) ==
    \E i \in DOMAIN rule.mayDepends : match(rule.mayDepends[i], depPkg)

starActuals(graph, rule, pkg) ==
    {d \in dependencies(pkg) :
        /\ ~mayDepend(rule, graph[d])
        /\ graph[d].name \in rule.expectedStarToPackage}

specificActuals(graph, rule, pkg) ==
    {d \in dependencies(pkg) :
        /\ ~mayDepend(rule, graph[d])
        /\ graph[d].name \notin rule.expectedStarToPackage
        /\ graph[d].name \in specificExceptions(rule, pkg.name)}

\* bads without the test of the exceptions declared for the package
bads_ignoringSpecific(graph, rule, pkg) ==
    {d \in dependencies(pkg) :
        /\ ~mayDepend(rule, graph[d])
        /\ graph[d].name \notin rule.expectedStarToPackage}

bads(graph, rule, pkg) ==
    {d \in dependencies(pkg) :
        /\ ~mayDepend(rule, graph[d])
        /\ graph[d].name \notin rule.expectedStarToPackage
        /\ graph[d].name \notin specificExceptions(rule, pkg.name)}

\* starExpected with the report made from inside the loop over the dependencies,
\* so that a package without dependencies reports nothing
starExpected_insideLoop(graph, rule, pkg) ==
    {expected \in rule.expectedStarToPackage :
        /\ dependencies(pkg) # {}
        /\ expected # pkg.name
        /\ expected \notin starActuals(graph, rule, pkg)}

\* the generic exceptions the second loop of "Handle violations" reports
starExpected(graph, rule, pkg) ==
    {expected \in rule.expectedStarToPackage :
        /\ expected # pkg.name
        /\ expected \notin starActuals(graph, rule, pkg)}

\* the specific exceptions its third loop reports
specificExpected(graph, rule, pkg) ==
    {expected \in specificExceptions(rule, pkg.name) :
        /\ expected # pkg.name
        /\ expected \notin specificActuals(graph, rule, pkg)}

\* what one call appends to rule.violations, one sequence per iteration order
appended(graph, rule, pkg) ==
    {[i \in 1..Len(b) |-> Disallowed(pkg, b[i])]
        \o [i \in 1..Len(s) |-> ExpectedButAbsent(pkg, s[i])]
        \o [i \in 1..Len(t) |-> ExpectedButAbsent(pkg, t[i])] :
        b \in Orderings(bads(graph, rule, pkg)),
        s \in Orderings(starExpected(graph, rule, pkg)),
        t \in Orderings(specificExpected(graph, rule, pkg))}

\* a nil dependency is dereferenced by the first test made on it
panics(pkg) == NilPkg \in dependencies(pkg)

\* process assigning the new entries to rule.violations instead of appending them
process_overwriting(graph, rule, pkg) ==
    IF panics(pkg)
    THEN {[rule EXCEPT !.actualPackagesProcessed = @ \cup {pkg.name}]}
    ELSE {[rule EXCEPT !.actualPackagesProcessed = @ \cup {pkg.name},
                       !.violations = a] : a \in appended(graph, rule, pkg)}

\* rule.process: the rule after the call, one per iteration order; a call that
\* panics has marked the package and appended nothing
process(graph, rule, pkg) ==
    IF panics(pkg)
    THEN {[rule EXCEPT !.actualPackagesProcessed = @ \cup {pkg.name}]}
    ELSE {[rule EXCEPT !.actualPackagesProcessed = @ \cup {pkg.name},
                       !.violations = @ \o a] : a \in appended(graph, rule, pkg)}

\* processMissingPackages with its test negated
processMissingPackages_negated(rule) ==
    {[rule EXCEPT !.violations = @ \o [i \in 1..Len(m) |-> Missing(m[i])]] :
        m \in Orderings({expected \in DOMAIN rule.expectedPackageToPackage :
                            expected \in rule.actualPackagesProcessed})}

\* processMissingPackages starting from an empty list
processMissingPackages_resetting(rule) ==
    {[rule EXCEPT !.violations = [i \in 1..Len(m) |-> Missing(m[i])]] :
        m \in Orderings({expected \in DOMAIN rule.expectedPackageToPackage :
                            expected \notin rule.actualPackagesProcessed})}

processMissingPackages(rule) ==
    {[rule EXCEPT !.violations = @ \o [i \in 1..Len(m) |-> Missing(m[i])]] :
        m \in Orderings({expected \in DOMAIN rule.expectedPackageToPackage :
                            expected \notin rule.actualPackagesProcessed})}

\* main's test of a package against a rule
selects(rule, name) == MatchString(rule.packagePattern, name)

-----------------------------------------------------------------------------
(* defs.collectPackages.                                                   *)

\* level > 256 in _collectPackages
MaxLevel == 256

\* getImports: the imports of the loaded package, itself excluded
getImports(id, goPkg) == goPkg.imports \ {id}

\* the loop without its test of the node mapping
known_never(graph, imp) == FALSE

\* `_, ok := pkgs[imp]`
known(graph, imp) == imp \in DOMAIN graph

\* only the first of the two early returns
isLeaf_gorootOnly(workingPackage, pkg) == pkg.goroot

\* the two early returns after the node is stored
isLeaf(workingPackage, pkg) ==
    \/ pkg.goroot
    \/ ~HasPrefix(pkg.name, workingPackage)

Put(f, k, v) == [x \in DOMAIN f \cup {k} |-> IF x = k THEN v ELSE f[x]]

\* pkg.dependsOn[imp] = pkgs[imp]: nil when pkgs has no such key
recordEdge(graph, from, imp) ==
    [graph EXCEPT ![from].dependsOn =
        Put(@, imp, IF imp \in DOMAIN graph THEN imp ELSE NilPkg)]

\* One entry into _collectPackages(pkgs, root, pkgName, level), up to its loop:
\*   "cut"    the level passed the cap, nothing was loaded
\*   "error"  packages.Load failed
\*   "leaf"   the node is stored and the call has returned
\*   "expand" the node is stored and the call is at its loop over the imports
enter(pkgName, level) ==
    IF level + 1 > MaxLevel THEN [result |-> "cut"]
    ELSE IF pkgName \notin DOMAIN world.pkg THEN [result |-> "error"]
    ELSE LET goPkg == world.pkg[pkgName]
             pkg   == [name |-> pkgName, goroot |-> goPkg.goroot, dependsOn |-> <<>>]
         IN  IF isLeaf(defs.Config.WorkingPackage, pkg)
             THEN [result |-> "leaf", pkg |-> pkg]
             ELSE [result |-> "expand", pkg |-> pkg,
                   imports |-> getImports(pkgName, goPkg), level |-> level + 1]

selected(rules, name) == \E i \in DOMAIN rules : selects(rules[i], name)

\* main after its loop over the packages: the loop over the rules, which
\* runs no iteration when there is no rule
afterRun(rules) == IF rules = <<>> THEN "done" ELSE "missing"

\* main after collectPackages returned the graph
afterBuild(graph) ==
    IF \E p \in DOMAIN graph : selected(defs.Rules, p) THEN "run"
    ELSE afterRun(defs.Rules)

\* collectPackages: the first call, on "." at level 0, which resolves to the root
CollectPackages ==
    /\ phase = "start"
    /\ LET c == enter(world.root, 0)
       IN  /\ loads' = IF c.result = "cut" THEN loads
                       ELSE loads (+) SetToBag({world.root})
           /\ CASE c.result = "cut" ->
                     /\ pkgs' = pkgs /\ stack' = stack /\ pending' = {}
                     /\ phase' = afterBuild(pkgs)
                [] c.result = "error" ->
                     /\ pkgs' = <<>> /\ stack' = <<>> /\ pending' = {}
                     /\ phase' = "failed"
                [] c.result = "leaf" ->
                     /\ pkgs' = Put(pkgs, world.root, c.pkg)
                     /\ stack' = stack
                     /\ pending' = DOMAIN pkgs'
                     /\ phase' = afterBuild(pkgs')
                [] c.result = "expand" ->
                     /\ pkgs' = Put(pkgs, world.root, c.pkg)
                     /\ \E todo \in Orderings(c.imports) :
                            stack' = <<[name |-> world.root, todo |-> todo,
                                        level |-> c.level]>>
                     /\ pending' = {}
                     /\ phase' = "build"
    /\ UNCHANGED <<world, defs, nextRule, mIn, mPat, mOut>>

\* one iteration of `for _, imp := range getImports(goPkg)` in the innermost call
Visit ==
    /\ phase = "build"
    /\ stack # <<>>
    /\ LET top  == stack[Len(stack)]
           rest == Take(stack, Len(stack) - 1)
       IN  /\ top.todo # <<>>
           /\ LET imp  == Head(top.todo)
                  next == Append(rest, [top EXCEPT !.todo = Tail(@)])
              IN  IF known(pkgs, imp)
                  THEN /\ pkgs' = recordEdge(pkgs, top.name, imp)
                       /\ stack' = next
                       /\ UNCHANGED <<loads, phase>>
                  ELSE LET c == enter(imp, top.level)
                       IN  /\ loads' = IF c.result = "cut" THEN loads
                                       ELSE loads (+) SetToBag({imp})
                           /\ CASE c.result = "cut" ->
                                     /\ pkgs' = recordEdge(pkgs, top.name, imp)
                                     /\ stack' = next
                                     /\ phase' = phase
                                [] c.result = "error" ->
                                     /\ pkgs' = <<>> /\ stack' = <<>>
                                     /\ phase' = "failed"
                                [] c.result = "leaf" ->
                                     /\ pkgs' = recordEdge(Put(pkgs, imp, c.pkg), top.name, imp)
                                     /\ stack' = next
                                     /\ phase' = phase
                                [] c.result = "expand" ->
                                     /\ pkgs' = Put(pkgs, imp, c.pkg)
                                     /\ \E todo \in Orderings(c.imports) :
                                            stack' = Append(stack,
                                                [name |-> imp, todo |-> todo,
                                                 level |-> c.level])
                                     /\ phase' = phase
    /\ UNCHANGED <<world, defs, pending, nextRule, mIn, mPat, mOut>>

\* the innermost call ends its loop and returns nil; its caller records the edge
Return ==
    /\ phase = "build"
    /\ stack # <<>>
    /\ LET top  == stack[Len(stack)]
           rest == Take(stack, Len(stack) - 1)
       IN  /\ top.todo = <<>>
           /\ IF rest = <<>>
              THEN /\ stack' = <<>>
                   /\ pkgs' = pkgs
                   /\ pending' = DOMAIN pkgs
                   /\ phase' = afterBuild(pkgs)
              ELSE LET caller == rest[Len(rest)]
                   IN  /\ pkgs' = recordEdge(pkgs, caller.name, Head(caller.todo))
                       /\ stack' = [rest EXCEPT ![Len(rest)].todo = Tail(@)]
                       /\ UNCHANGED <<pending, phase>>
    /\ UNCHANGED <<world, defs, loads, nextRule, mIn, mPat, mOut>>

-----------------------------------------------------------------------------
(* main: the rules over the graph.                                         *)

\* `for _, rule := range defs.Rules`: the rules after one package went through
\* them in order; a panic ends the loop at the rule that panicked
RECURSIVE runRules(_, _, _)
runRules(graph, rules, pkg) ==
    IF rules = <<>> THEN {<<>>}
    ELSE IF ~selects(Head(rules), pkg.name)
    THEN {<<Head(rules)>> \o t : t \in runRules(graph, Tail(rules), pkg)}
    ELSE IF panics(pkg)
    THEN {<<h>> \o Tail(rules) : h \in process(graph, Head(rules), pkg)}
    ELSE {<<h>> \o t : h \in process(graph, Head(rules), pkg),
                       t \in runRules(graph, Tail(rules), pkg)}

\* one iteration of `for _, pkg := range pkgs` that some rule selects; the
\* iterations no rule selects change nothing
RunPackage(p) ==
    /\ phase = "run"
    /\ p \in pending
    /\ selected(defs.Rules, p)
    /\ \E rules \in runRules(pkgs, defs.Rules, pkgs[p]) :
           defs' = [defs EXCEPT !.Rules = rules]
    /\ pending' = pending \ {p}
    /\ phase' = IF panics(pkgs[p]) THEN "panic"
                ELSE IF \E q \in pending' : selected(defs.Rules, q) THEN "run"
                ELSE afterRun(defs.Rules)
    /\ UNCHANGED <<world, pkgs, stack, loads, nextRule, mIn, mPat, mOut>>

\* one iteration of main's loop calling rule.processMissingPackages
ProcessMissingPackages ==
    /\ phase = "missing"
    /\ \E rule \in processMissingPackages(defs.Rules[nextRule]) :
           defs' = [defs EXCEPT !.Rules[nextRule] = rule]
    /\ nextRule' = nextRule + 1
    /\ phase' = IF nextRule = Len(defs.Rules) THEN "done" ELSE "missing"
    /\ UNCHANGED <<world, pkgs, stack, loads, pending, mIn, mPat, mOut>>

-----------------------------------------------------------------------------
(* The pattern check: compilePkgpattern and, when it returned no error,    *)
(* match, on one input.                                                    *)

Compile ==
    /\ phase = "match"
    /\ mPat = <<>>
    /\ mPat' = <<compilePkgpattern(mIn[1].wp, mIn[1].expr)>>
    /\ UNCHANGED <<world, defs, pkgs, stack, loads, pending, nextRule, phase, mIn, mOut>>

MatchPkg ==
    /\ phase = "match"
    /\ mPat # <<>>
    /\ mPat[1].err = ""
    /\ mOut = <<>>
    /\ mOut' = <<match(mPat[1].p, mIn[1].pkg)>>
    /\ UNCHANGED <<world, defs, pkgs, stack, loads, pending, nextRule, phase, mIn, mPat>>

-----------------------------------------------------------------------------
(* The inputs. *)

W  == <<"w">>
WA == <<"w", "/", "a">>
WB == <<"w", "/", "b">>
\* an import that packages.Load cannot resolve
WZ == <<"w", "/", "z">>
\* a third-party package, and two packages of the standard library
X  == <<"x">>
F  == <<"f">>
U  == <<"u">>

AtMost(S, n) == {T \in SUBSET S : Cardinality(T) <= n}

\* what packages.Load finds: w is the root; x and f have imports of their own
WorldOf(w, a, b) ==
    [root |-> W,
     pkg  |-> (W  :> [goroot |-> FALSE, imports |-> w]) @@
              (WA :> [goroot |-> FALSE, imports |-> a]) @@
              (WB :> [goroot |-> FALSE, imports |-> b]) @@
              (X  :> [goroot |-> FALSE, imports |-> {F}]) @@
              (F  :> [goroot |-> TRUE,  imports |-> {U}]) @@
              (U  :> [goroot |-> TRUE,  imports |-> {}])]

Worlds ==
    {WorldOf(w, a, b) :
        w \in AtMost({WA, WB}, MaxImports) \ {{}},
        a \in AtMost({WB, W, F, X, WZ}, MaxImports),
        b \in AtMost({WA, WB, F}, MaxImports)}

\* the worlds every rule set is run on
RuleWorlds ==
    {WorldOf({WA, WB}, a, b) :
        a \in AtMost({WB, W, F, X}, MaxImports),
        b \in {{}, {WA}}}

PackagesExprs == {<<"a">>, <<".", "*">>}

MayDependExprs == {ThirdParties, <<"<", ".", "*", ">">>, WB}

ExpectedExprs ==
    {<<"a">>, <<"b">>, <<"q">>,
     <<"a", " ", "-", ">", " ", "b">>,
     <<"b", "-", ">", "a">>,
     <<"q", " ", "-", ">", " ", "b">>}

\* a list of the members of S
ListOf(S) == CHOOSE o \in Orderings(S) : TRUE

RuleInputs ==
    {[Packages |-> p, MayDepend |-> ListOf(m), Expected |-> ListOf(e)] :
        p \in PackagesExprs,
        m \in AtMost(MayDependExprs, MaxMayDepend),
        e \in AtMost(ExpectedExprs, MaxExpected)}

Inputs ==
    {[Config |-> [WorkingPackage |-> W], Rules |-> <<r>>] : r \in RuleInputs}

\* the rule sets every world is built under
BuildInputs ==
    {[Config |-> [WorkingPackage |-> W],
      Rules  |-> <<[Packages |-> <<".", "*">>, MayDepend |-> <<>>, Expected |-> <<>>]>>],
     [Config |-> [WorkingPackage |-> W],
      Rules  |-> <<[Packages |-> <<".", "*">>, MayDepend |-> << <<"<", ".", "*", ">">> >>,
                    Expected |-> <<>>],
                   [Packages |-> <<"a">>, MayDepend |-> <<ThirdParties>>,
                    Expected |-> << <<"b">>, <<"q", " ", "-", ">", " ", "b">> >>]>>]}

\* main after parse, which panics on the error of parse
InitWith(w, input) ==
    /\ supported(input)
    /\ world = w
    /\ defs = parse(input)
    /\ pkgs = <<>>
    /\ stack = <<>>
    /\ loads = EmptyBag
    /\ pending = {}
    /\ nextRule = 1
    /\ phase = IF parseOk(input) THEN "start" ELSE "failed"
    /\ mIn = <<>>
    /\ mPat = <<>>
    /\ mOut = <<>>

\* every world, under two rule sets
InitBuild == \E w \in Worlds, input \in BuildInputs : InitWith(w, input)

\* every rule set, on the worlds whose build succeeds with w, w/a and w/b
InitRules == \E w \in RuleWorlds, input \in Inputs : InitWith(w, input)

\* no rule at all; expressions with a class, an alternation, "+" and "\.";
\* white space other than the blank around the parts of an expectation; and
\* the inputs parse returns an error for
EdgeRules ==
    {<<>>,
     <<[Packages |-> <<"[", "a", "-", "c", "]">>, MayDepend |-> << <<"w", "\\", ".", "b">> >>,
        Expected |-> << <<"a", "\t", "-", ">", "\r", "\n", "b", "\f">> >>]>>,
     <<[Packages |-> <<"a", "|", "b", "+">>, MayDepend |-> << <<"<", "[", "^", "u", "]", ">">> >>,
        Expected |-> << <<"U+00A0", "b", "U+000B">> >>]>>,
     <<[Packages |-> <<"*", "*">>, MayDepend |-> <<>>, Expected |-> <<>>]>>,
     <<[Packages |-> <<"a", "*", "*">>, MayDepend |-> <<>>, Expected |-> <<>>]>>,
     <<[Packages |-> <<"a">>, MayDepend |-> << <<"*">> >>, Expected |-> <<>>]>>,
     <<[Packages |-> <<"a">>, MayDepend |-> << <<"\\", "U+00A0">> >>, Expected |-> <<>>]>>,
     <<[Packages |-> <<"[", "\\", "U+2028", "]">>, MayDepend |-> <<>>, Expected |-> <<>>]>>,
     <<[Packages |-> <<"a">>, MayDepend |-> << <<"<", "*", ">">> >>, Expected |-> <<>>]>>,
     <<[Packages |-> <<"a">>, MayDepend |-> <<>>,
        Expected |-> << <<"a", "-", ">", "b", "-", ">", "a">> >>]>>}

EdgeInputs ==
    {[Config |-> [WorkingPackage |-> W], Rules |-> rules] : rules \in EdgeRules}
        \cup {[Config |-> [WorkingPackage |-> <<"w", "/">>],
               Rules  |-> <<[Packages |-> <<"a">>, MayDepend |-> <<>>, Expected |-> <<>>]>>]}

InitEdge ==
    \E input \in EdgeInputs : InitWith(WorldOf({WA, WB}, {WB, F}, {}), input)

Init == InitBuild \/ InitRules \/ InitEdge

Next ==
    \/ CollectPackages
    \/ Visit
    \/ Return
    \/ \E p \in DOMAIN pkgs : RunPackage(p)
    \/ ProcessMissingPackages

Spec == Init /\ [][Next]_vars

\* the program is sequential: a step that can be taken is taken
SpecBuild == InitBuild /\ [][Next]_vars /\ WF_vars(Next)

-----------------------------------------------------------------------------
(* An import chain deeper than the cap of _collectPackages.                *)

Digit == <<"0", "1", "2", "3", "4", "5", "6", "7", "8", "9">>

RECURSIVE Decimal(_)
Decimal(n) ==
    IF n < 10 THEN <<Digit[n + 1]>>
    ELSE Decimal(n \div 10) \o <<Digit[(n % 10) + 1]>>

ChainName(i) == <<"w", "/">> \o Decimal(i)

\* w imports w/1, w/1 imports w/2, and so on to w/256, which the cap cuts
ChainWorld ==
    [root |-> W,
     pkg  |-> [n \in {W} \cup {ChainName(i) : i \in 1..MaxLevel} |->
                  [goroot  |-> FALSE,
                   imports |-> IF n = W THEN {ChainName(1)}
                               ELSE {ChainName(i + 1) :
                                        i \in {j \in 1..(MaxLevel - 1) : ChainName(j) = n}}]]]

DeepInputs ==
    {[Config |-> [WorkingPackage |-> W],
      Rules  |-> <<[Packages |-> p, MayDepend |-> <<>>, Expected |-> <<>>]>>] :
        p \in {Decimal(1), Decimal(MaxLevel - 1)}}

InitDeep == \E input \in DeepInputs : InitWith(ChainWorld, input)

SpecDeep == InitDeep /\ [][Next]_vars

-----------------------------------------------------------------------------
(* The pattern check's inputs. *)

MatchInputs ==
    [wp   : {<<>>, W, F},
     expr : {ThirdParties, <<"<", ".", "*", ">">>, <<"<", "f", ">">>, WA, <<".", "*">>, X,
             <<"w", "/", "[", "a", "-", "c", "]", "$">>, <<"*">>, <<"<", "*", ">">>,
             <<"\\", "U+0085">>},
     pkg  : [name : {WA, X, F, <<"w", "x">>, <<"f", "m", "t">>},
             goroot : BOOLEAN, dependsOn : {<<>>}]]

InitMatch ==
    /\ mIn \in {<<i>> : i \in MatchInputs}
    /\ mPat = <<>>
    /\ mOut = <<>>
    /\ world = [root |-> <<>>, pkg |-> <<>>]
    /\ defs = [Config |-> [WorkingPackage |-> <<>>], Rules |-> <<>>]
    /\ pkgs = <<>>
    /\ stack = <<>>
    /\ loads = EmptyBag
    /\ pending = {}
    /\ nextRule = 1
    /\ phase = "match"

NextMatch == Compile \/ MatchPkg

SpecMatch == InitMatch /\ [][NextMatch]_vars

-----------------------------------------------------------------------------
(* Properties. *)

Count(s, v) == Cardinality({i \in 1..Len(s) : s[i] = v})

BagOfSeq(s) == [v \in Range(s) |-> Count(s, v)]

IsPrefix(s, t) == Len(s) <= Len(t) /\ Take(t, Len(s)) = s

\* the graph collectPackages returned to main
Built == phase \in {"run", "missing", "done", "panic"}

\* the packages of the graph the rule's selector matches
Matched(rule) == {p \in DOMAIN pkgs : selects(rule, p)}

\* the step is main's call of process on package p
Processes(p) == phase = "run" /\ p \in pending /\ p \notin pending'

\* the dependencies of p that no allowed pattern and no exception of the rule covers
Uncovered(rule, p) ==
    {d \in dependencies(pkgs[p]) :
        /\ \A k \in DOMAIN rule.mayDepends : ~match(rule.mayDepends[k], pkgs[d])
        /\ d \notin rule.expectedStarToPackage
        /\ \/ p \notin DOMAIN rule.expectedPackageToPackage
           \/ d \notin rule.expectedPackageToPackage[p]}

\* C1: one call process(graph, P) appends exactly one "disallowed P -> D" for each
\* dependency D of P that no allowed pattern matches and that is neither a generic
\* exception nor a specific exception declared for P, and no "disallowed" entry
\* for any other dependency.
C1_DisallowedExactlyUncovered ==
    [][\A p \in DOMAIN pkgs : \A i \in DOMAIN defs.Rules :
          (Processes(p) /\ selects(defs.Rules[i], p) /\ ~panics(pkgs[p])) =>
              LET add == Drop(defs'.Rules[i].violations, Len(defs.Rules[i].violations))
              IN  /\ \A d \in Uncovered(defs.Rules[i], p) :
                         Count(add, Disallowed(pkgs[p], d)) = 1
                  /\ \A k \in 1..Len(add) :
                         add[k][1] = "disallowed" =>
                             /\ add[k][2] = String(pkgs[p])
                             /\ add[k][3] \in Uncovered(defs.Rules[i], p)]_vars

\* a processed package with one dependency reported and another one accepted
C1_Witness ==
    \E i \in DOMAIN defs.Rules : \E p \in defs.Rules[i].actualPackagesProcessed :
        \E d, e \in dependencies(pkgs[p]) :
            /\ Count(defs.Rules[i].violations, Disallowed(pkgs[p], d)) = 1
            /\ Count(defs.Rules[i].violations, Disallowed(pkgs[p], e)) = 0

\* C2 as stated: a pattern compiled from third_parties matches a package iff its
\* name does not start with the working prefix, whatever its standard-library flag.
C2_ThirdPartiesIgnoresGoroot ==
    (mOut # <<>> /\ mIn[1].expr = ThirdParties) =>
        mOut[1] = ~HasPrefix(mIn[1].pkg.name, mIn[1].wp)

\* C2 amended: a pattern compiled from third_parties matches a package iff the
\* package is not standard-library and its name does not start with the working
\* prefix.
C2_ThirdPartiesMatch ==
    (mOut # <<>> /\ mIn[1].expr = ThirdParties) =>
        mOut[1] = (~mIn[1].pkg.goroot /\ ~HasPrefix(mIn[1].pkg.name, mIn[1].wp))

\* third_parties was matched against a third-party package and against a
\* standard-library one outside the prefix: the first matches, the second does not
C2_Witness ==
    /\ mOut # <<>>
    /\ mIn[1].expr = ThirdParties
    /\ mIn[1].wp = W
    /\ \/ mIn[1].pkg.name = X /\ ~mIn[1].pkg.goroot /\ mOut[1]
       \/ mIn[1].pkg.name = F /\ mIn[1].pkg.goroot /\ ~mOut[1]

\* a generic exception N of the rule that no matched package has an edge to
NeverDependedOn(rule, n) ==
    /\ n \in rule.expectedStarToPackage
    /\ \A p \in Matched(rule) : n \notin dependencies(pkgs[p])

\* C3 as stated: if a rule declares a generic exception N and no matched package
\* has an edge to N, then after the run the violations contain "expected P -> N"
\* for every package P the rule processed.
C3_ExpectedForEveryProcessed ==
    phase = "done" =>
        \A i \in DOMAIN defs.Rules : \A n \in defs.Rules[i].expectedStarToPackage :
            NeverDependedOn(defs.Rules[i], n) =>
                \A p \in defs.Rules[i].actualPackagesProcessed :
                    Count(defs.Rules[i].violations, ExpectedButAbsent(pkgs[p], n)) >= 1

\* C3 amended: ... for every package P the rule processed other than N itself.
C3_ExpectedForEveryOtherProcessed ==
    phase = "done" =>
        \A i \in DOMAIN defs.Rules : \A n \in defs.Rules[i].expectedStarToPackage :
            NeverDependedOn(defs.Rules[i], n) =>
                \A p \in defs.Rules[i].actualPackagesProcessed \ {n} :
                    Count(defs.Rules[i].violations, ExpectedButAbsent(pkgs[p], n)) >= 1

\* the run ended with a never-used generic exception reported for two packages
C3_Witness ==
    /\ phase = "done"
    /\ \E i \in DOMAIN defs.Rules : \E n \in defs.Rules[i].expectedStarToPackage :
           /\ NeverDependedOn(defs.Rules[i], n)
           /\ \E p, q \in defs.Rules[i].actualPackagesProcessed :
                  /\ p # q
                  /\ Count(defs.Rules[i].violations, ExpectedButAbsent(pkgs[p], n)) = 1
                  /\ Count(defs.Rules[i].violations, ExpectedButAbsent(pkgs[q], n)) = 1

\* a parent of a specific exception that the rule's selector never matched
NeverMatched(rule, parent) ==
    /\ parent \in DOMAIN rule.expectedPackageToPackage
    /\ parent \notin Matched(rule)

\* the "expected" and "disallowed" entries of a rule
EdgeEntries(rule) ==
    {v \in Range(rule.violations) : v[1] \in {"expected", "disallowed"}}

\* C4 as stated: if a rule declares "parent -> child" and no graph package named
\* parent is matched by its selector, then after the full run the violations
\* contain exactly one "missing parent" and no "expected" or "disallowed" entry
\* that references parent.
C4_MissingOnceNoReference ==
    phase = "done" =>
        \A i \in DOMAIN defs.Rules : \A parent \in DOMAIN defs.Rules[i].expectedPackageToPackage :
            NeverMatched(defs.Rules[i], parent) =>
                /\ Count(defs.Rules[i].violations, Missing(parent)) = 1
                /\ \A v \in EdgeEntries(defs.Rules[i]) : v[2] # parent /\ v[3] # parent

\* C4 amended: ... exactly one "missing parent" and no "expected" or "disallowed"
\* entry whose source package is parent.
C4_MissingOnceNoSource ==
    phase = "done" =>
        \A i \in DOMAIN defs.Rules : \A parent \in DOMAIN defs.Rules[i].expectedPackageToPackage :
            NeverMatched(defs.Rules[i], parent) =>
                /\ Count(defs.Rules[i].violations, Missing(parent)) = 1
                /\ \A v \in EdgeEntries(defs.Rules[i]) :
                       v[2] \notin {parent, <<"<">> \o parent \o <<">">>}

\* the run ended with an unmatched parent that is in the graph and reported missing,
\* beside edge entries of the packages that were processed
C4_Witness ==
    /\ phase = "done"
    /\ \E i \in DOMAIN defs.Rules : \E parent \in DOMAIN pkgs :
           /\ NeverMatched(defs.Rules[i], parent)
           /\ Count(defs.Rules[i].violations, Missing(parent)) = 1
           /\ EdgeEntries(defs.Rules[i]) # {}

\* C5: when the rule declares the specific exception "P -> D" and P, processed by
\* the rule, depends on D, process appends neither "disallowed P -> D" nor
\* "expected P -> D", whatever the allowed patterns and generic exceptions.
C5_KnownDependencyAccepted ==
    \A i \in DOMAIN defs.Rules : \A p \in defs.Rules[i].actualPackagesProcessed :
        \A d \in specificExceptions(defs.Rules[i], p) \cap dependencies(pkgs[p]) :
            /\ Count(defs.Rules[i].violations, Disallowed(pkgs[p], d)) = 0
            /\ Count(defs.Rules[i].violations, ExpectedButAbsent(pkgs[p], d)) = 0

\* the rule as parse left it
Fresh(rule) == [rule EXCEPT !.actualPackagesProcessed = {}, !.violations = <<>>]

\* the rule after process went over the packages in the given order
RECURSIVE Replay(_, _, _)
Replay(graph, rule, order) ==
    IF order = <<>> THEN rule
    ELSE Replay(graph,
                CHOOSE r \in process(graph, rule, graph[Head(order)]) : TRUE,
                Tail(order))

\* the violations of the rule after a run that iterates the packages in that order
ViolationsIn(rule, order) ==
    (CHOOSE r \in processMissingPackages(Replay(pkgs, Fresh(rule), order)) : TRUE).violations

\* C6: for a fixed graph and rule set, the violations of every rule after the run
\* are, as a multiset, the same for every order in which the packages are passed
\* to process.
C6_OrderIndependent ==
    phase = "done" =>
        \A i \in DOMAIN defs.Rules : \A order \in Orderings(Matched(defs.Rules[i])) :
            BagOfSeq(defs.Rules[i].violations)
                = BagOfSeq(ViolationsIn(defs.Rules[i], order))

\* the run ended with a rule that processed two packages and reported on both
C6_Witness ==
    /\ phase = "done"
    /\ \E i \in DOMAIN defs.Rules : \E p, q \in defs.Rules[i].actualPackagesProcessed :
           /\ p # q
           /\ \E v, w \in Range(defs.Rules[i].violations) :
                  v[1] # "missing" /\ w[1] # "missing" /\ v[2] = p /\ w[2] = q

\* C7: in every graph of the builder, a node that is standard-library, or whose
\* name does not start with the working prefix, has an empty dependsOn.
C7_OutsideNodesAreLeaves ==
    \A n \in DOMAIN pkgs :
        (pkgs[n].goroot \/ ~HasPrefix(n, defs.Config.WorkingPackage)) =>
            DOMAIN pkgs[n].dependsOn = {}

\* the returned graph holds a standard-library node and a third-party node, both
\* of which have imports of their own
C7_Witness ==
    /\ Built
    /\ {X, F} \subseteq DOMAIN pkgs
    /\ pkgs[F].goroot /\ ~pkgs[X].goroot
    /\ world.pkg[X].imports # {} /\ world.pkg[F].imports # {}

\* C8: across the calls of process and processMissingPackages, the violations
\* before a call are a prefix of the violations after it, and
\* actualPackagesProcessed never loses a member.
C8_AppendOnly ==
    [][\A i \in DOMAIN defs.Rules :
          /\ IsPrefix(defs.Rules[i].violations, defs'.Rules[i].violations)
          /\ defs.Rules[i].actualPackagesProcessed
                \subseteq defs'.Rules[i].actualPackagesProcessed]_vars

\* the run ended with a rule that holds entries of process and of
\* processMissingPackages
C8_Witness ==
    /\ phase = "done"
    /\ \E i \in DOMAIN defs.Rules :
           /\ defs.Rules[i].actualPackagesProcessed # {}
           /\ EdgeEntries(defs.Rules[i]) # {}
           /\ \E v \in Range(defs.Rules[i].violations) : v[1] = "missing"

\* C9: in every graph returned by a build that did not fail, every edge of a
\* package's dependsOn points to a node of the returned mapping under the edge's
\* name, also where the depth cap cut a branch.
C9_EdgesHaveTargets ==
    Built =>
        \A n \in DOMAIN pkgs : \A imp \in DOMAIN pkgs[n].dependsOn :
            /\ pkgs[n].dependsOn[imp] # NilPkg
            /\ imp \in DOMAIN pkgs
            /\ pkgs[imp].name = imp

\* C10: the build terminates on every finite import graph, cycles and diamonds
\* included, and no name is loaded more than once during one build.
C10_BuildTerminatesLoadingOnce ==
    /\ <>(phase \notin {"start", "build"})
    /\ [](\A n \in BagToSet(loads) : CopiesIn(n, loads) = 1)

\* a build came to its end on a graph with a diamond (w -> w/a -> w/b, w -> w/b)
\* and a cycle (w/a -> w/b -> w/a), every package loaded once
C10_Witness ==
    /\ Built
    /\ {WA, WB} \subseteq DOMAIN pkgs[W].dependsOn
    /\ WB \in DOMAIN pkgs[WA].dependsOn
    /\ WA \in DOMAIN pkgs[WB].dependsOn
    /\ \A n \in DOMAIN pkgs : CopiesIn(n, loads) = 1

=============================================================================
